---- MODULE Spec2Model ----
(***************************************************************************)
(* Model of ja4db_export.py: the export of a fetched JSON payload to       *)
(* csv/all_records.csv and to one CSV per name in FINGERPRINT_COLS.        *)
(*                                                                         *)
(* A Python str is a sequence of character codes, so that lower(),         *)
(* strip(), string comparison and the sorting of column names are          *)
(* computed as Python computes them.  A JSON value is a record tagged with *)
(* the name of its Python type.  A CSV file is the sequence of the rows    *)
(* written to it, a row being the sequence of its cells.                   *)
(***************************************************************************)
EXTENDS Integers, Sequences, FiniteSets, TLC

(***************************************************************************)
(* Bounds of the model.                                                    *)
(***************************************************************************)
\* longest payload list drawn
MaxPayloadLen == 2
\* number of times the export is run on the same payload and directory
MaxRuns == 2

(***************************************************************************)
(* Text.                                                                   *)
(***************************************************************************)
\* the names of the columns, as text
K ==
  [ application |-> <<97, 112, 112, 108, 105, 99, 97, 116, 105, 111, 110>>,
    library |-> <<108, 105, 98, 114, 97, 114, 121>>,
    device |-> <<100, 101, 118, 105, 99, 101>>,
    os |-> <<111, 115>>,
    user_agent_string |-> <<117, 115, 101, 114, 95, 97, 103, 101, 110, 116, 95, 115, 116, 114, 105, 110, 103>>,
    certificate_authority |-> <<99, 101, 114, 116, 105, 102, 105, 99, 97, 116, 101, 95, 97, 117, 116, 104, 111, 114, 105, 116, 121>>,
    verified |-> <<118, 101, 114, 105, 102, 105, 101, 100>>,
    notes |-> <<110, 111, 116, 101, 115>>,
    observation_count |-> <<111, 98, 115, 101, 114, 118, 97, 116, 105, 111, 110, 95, 99, 111, 117, 110, 116>>,
    ja4_fingerprint |-> <<106, 97, 52, 95, 102, 105, 110, 103, 101, 114, 112, 114, 105, 110, 116>>,
    ja4_fingerprint_string |-> <<106, 97, 52, 95, 102, 105, 110, 103, 101, 114, 112, 114, 105, 110, 116, 95, 115, 116, 114, 105, 110, 103>>,
    ja4s_fingerprint |-> <<106, 97, 52, 115, 95, 102, 105, 110, 103, 101, 114, 112, 114, 105, 110, 116>>,
    ja4h_fingerprint |-> <<106, 97, 52, 104, 95, 102, 105, 110, 103, 101, 114, 112, 114, 105, 110, 116>>,
    ja4x_fingerprint |-> <<106, 97, 52, 120, 95, 102, 105, 110, 103, 101, 114, 112, 114, 105, 110, 116>>,
    ja4t_fingerprint |-> <<106, 97, 52, 116, 95, 102, 105, 110, 103, 101, 114, 112, 114, 105, 110, 116>>,
    ja4ts_fingerprint |-> <<106, 97, 52, 116, 115, 95, 102, 105, 110, 103, 101, 114, 112, 114, 105, 110, 116>>,
    ja4tscan_fingerprint |-> <<106, 97, 52, 116, 115, 99, 97, 110, 95, 102, 105, 110, 103, 101, 114, 112, 114, 105, 110, 116>>,
    id |-> <<105, 100>> ]

\* the text of the values that occur in the payloads drawn
T ==
  [ empty |-> <<>>,
    sp |-> <<32>>,
    Chrome |-> <<67, 104, 114, 111, 109, 101>>,
    chrome_sp |-> <<99, 104, 114, 111, 109, 101, 32>>,
    curl |-> <<99, 117, 114, 108>>,
    t13d |-> <<116, 49, 51, 100>>,
    T13D |-> <<84, 49, 51, 68>>,
    r1 |-> <<114, 49>>,
    n |-> <<110>>,
    s |-> <<115>>,
    stale |-> <<115, 116, 97, 108, 101>> ]

\* the literals the serializers emit
Lit ==
  [ true |-> <<116, 114, 117, 101>>,
    false |-> <<102, 97, 108, 115, 101>>,
    null |-> <<110, 117, 108, 108>>,
    None |-> <<78, 111, 110, 101>>,
    True |-> <<84, 114, 117, 101>>,
    False |-> <<70, 97, 108, 115, 101>>,
    dot_csv |-> <<46, 99, 115, 118>>,
    all_records_csv |-> <<97, 108, 108, 95, 114, 101, 99, 111, 114, 100, 115, 46, 99, 115, 118>> ]

\* the characters str.strip() removes (ASCII whitespace)
Whitespace == {9, 10, 11, 12, 13, 28, 29, 30, 31, 32}

\* str.lower() on one character
LowerChar(c) == IF c >= 65 /\ c <= 90 THEN c + 32 ELSE c

\* str.lower()
Lower(s) == [i \in 1..Len(s) |-> LowerChar(s[i])]

\* str.strip(): drop the leading and the trailing whitespace
Strip(s) ==
  LET keep == {i \in 1..Len(s) : s[i] \notin Whitespace}
  IN  IF keep = {} THEN <<>>
      ELSE LET lo == CHOOSE i \in keep : \A j \in keep : i <= j
               hi == CHOOSE i \in keep : \A j \in keep : j <= i
           IN  SubSeq(s, lo, hi)

\* Python's < on two str (or two lists of code points): by code point, a
\* proper prefix first
StrLess(a, b) ==
  \E i \in 1..(Len(b)) :
     /\ i <= Len(a) + 1
     /\ \A j \in 1..(i - 1) : a[j] = b[j]
     /\ (i = Len(a) + 1 \/ a[i] < b[i])

\* Python's < on two tuples of str
TupleLess(a, b) ==
  \E i \in 1..(Len(b)) :
     /\ i <= Len(a) + 1
     /\ \A j \in 1..(i - 1) : a[j] = b[j]
     /\ (i = Len(a) + 1 \/ StrLess(a[i], b[i]))

RECURSIVE Digits(_)
\* the decimal digits of a natural number
Digits(n) == IF n < 10 THEN <<48 + n>> ELSE Digits(n \div 10) \o <<48 + (n % 10)>>

\* str(v) of an int
IntStr(n) == IF n < 0 THEN <<45>> \o Digits(0 - n) ELSE Digits(n)

\* the width of the format specification of norm
PadWidth == 20

\* f"{v:020}" of an int: the sign, then zeros up to the width, then the digits
ZeroPad(n) ==
  LET d    == Digits(IF n < 0 THEN 0 - n ELSE n)
      sign == IF n < 0 THEN <<45>> ELSE <<>>
      fill == PadWidth - Len(sign) - Len(d)
  IN  sign \o [i \in 1..(IF fill > 0 THEN fill ELSE 0) |-> 48] \o d

(***************************************************************************)
(* JSON values, as json.loads returns them.                                *)
(***************************************************************************)
PyNone == [t |-> "NoneType"]
PyStr(s) == [t |-> "str", s |-> s]
PyInt(n) == [t |-> "int", n |-> n]
PyBool(b) == [t |-> "bool", b |-> b]
PyList(xs) == [t |-> "list", items |-> xs]
\* d: a function from keys (text) to values
PyDict(d) == [t |-> "dict", d |-> d]

\* the name of the type expected, in place of the one received
TypeName_expected(v) == "list"

\* type(v).__name__
TypeName(v) == v.t

\* isinstance(v, dict), isinstance(v, list)
IsDict(v) == v.t = "dict"
IsList(v) == v.t = "list"

\* r.get(k) of a dict
Get(r, k) == IF k \in DOMAIN r.d THEN r.d[k] ELSE PyNone

\* bool is a subclass of int: the int a number-typed value formats as
IntOf(v) == IF v.t = "bool" THEN (IF v.b THEN 1 ELSE 0) ELSE v.n

RECURSIVE JsonDumps(_)
\* json.dumps(v, ensure_ascii=False, separators=(",", ":")); the text drawn
\* needs no escape, and a mapping drawn as a field value has at most one key
JsonDumps(v) ==
  CASE v.t = "NoneType" -> Lit.null
    [] v.t = "bool" -> IF v.b THEN Lit.true ELSE Lit.false
    [] v.t = "int" -> IntStr(v.n)
    [] v.t = "str" -> <<34>> \o v.s \o <<34>>
    [] v.t = "list" ->
         LET RECURSIVE Join(_)
             Join(i) == IF i > Len(v.items) THEN <<>>
                        ELSE (IF i > 1 THEN <<44>> ELSE <<>>)
                             \o JsonDumps(v.items[i]) \o Join(i + 1)
         IN  <<91>> \o Join(1) \o <<93>>
    [] v.t = "dict" ->
         IF DOMAIN v.d = {} THEN <<123, 125>>
         ELSE LET k == CHOOSE x \in DOMAIN v.d : TRUE
              IN  <<123, 34>> \o k \o <<34, 58>> \o JsonDumps(v.d[k]) \o <<125>>

RECURSIVE PyRepr(_)
\* repr(v), which str() of a list or dict applies to the elements
PyRepr(v) ==
  CASE v.t = "NoneType" -> Lit.None
    [] v.t = "bool" -> IF v.b THEN Lit.True ELSE Lit.False
    [] v.t = "int" -> IntStr(v.n)
    [] v.t = "str" -> <<39>> \o v.s \o <<39>>
    [] v.t = "list" ->
         LET RECURSIVE Join(_)
             Join(i) == IF i > Len(v.items) THEN <<>>
                        ELSE (IF i > 1 THEN <<44, 32>> ELSE <<>>)
                             \o PyRepr(v.items[i]) \o Join(i + 1)
         IN  <<91>> \o Join(1) \o <<93>>
    [] v.t = "dict" ->
         IF DOMAIN v.d = {} THEN <<123, 125>>
         ELSE LET k == CHOOSE x \in DOMAIN v.d : TRUE
              IN  <<123, 39>> \o k \o <<39, 58, 32>> \o PyRepr(v.d[k]) \o <<125>>

\* str(v)
PyStrOf(v) == IF v.t = "str" THEN v.s ELSE PyRepr(v)

(***************************************************************************)
(* The helpers of the program.                                             *)
(***************************************************************************)
BASE_COLS ==
  << K.application, K.library, K.device, K.os, K.user_agent_string,
     K.certificate_authority, K.verified, K.notes, K.observation_count >>

FINGERPRINT_COLS ==
  << K.ja4_fingerprint, K.ja4_fingerprint_string, K.ja4s_fingerprint,
     K.ja4h_fingerprint, K.ja4x_fingerprint, K.ja4t_fingerprint,
     K.ja4ts_fingerprint, K.ja4tscan_fingerprint >>

\* is_present as a truthiness test, which takes 0 and false for absent
is_present_truthy(value) ==
  CASE value.t = "NoneType" -> FALSE
    [] value.t = "str" -> Strip(value.s) # <<>>
    [] value.t = "list" -> Len(value.items) > 0
    [] value.t = "dict" -> DOMAIN value.d # {}
    [] value.t = "bool" -> value.b
    [] value.t = "int" -> value.n # 0
    [] OTHER -> TRUE

is_present(value) ==
  CASE value.t = "NoneType" -> FALSE
    [] value.t = "str" -> Strip(value.s) # <<>>
    [] value.t = "list" -> Len(value.items) > 0
    [] value.t = "dict" -> DOMAIN value.d # {}
    [] OTHER -> TRUE

to_csv_cell(value) ==
  CASE value.t = "NoneType" -> <<>>
    [] value.t = "bool" -> IF value.b THEN Lit.true ELSE Lit.false
    [] value.t = "int" -> IntStr(value.n)
    [] value.t = "str" -> value.s
    [] OTHER -> JsonDumps(value)

norm(v) ==
  CASE v.t = "NoneType" -> <<>>
    [] v.t \in {"int", "bool"} -> ZeroPad(IntOf(v))
    [] OTHER -> Strip(Lower(PyStrOf(v)))

record_sort_key(r) ==
  << norm(Get(r, K.application)),
     norm(Get(r, K.library)),
     norm(Get(r, K.os)),
     norm(Get(r, K.user_agent_string)),
     norm(Get(r, K.ja4_fingerprint)),
     norm(Get(r, K.ja4s_fingerprint)),
     norm(Get(r, K.ja4h_fingerprint)),
     norm(Get(r, K.ja4x_fingerprint)),
     norm(Get(r, K.ja4t_fingerprint)),
     norm(Get(r, K.ja4ts_fingerprint)),
     norm(Get(r, K.ja4tscan_fingerprint)) >>

(***************************************************************************)
(* list.sort(key=...): a stable sort.                                      *)
(***************************************************************************)
\* an insertion that puts a row in front of the rows of equal key: a sort
\* that is not stable
InsertAfter_unstable(keys, placed, k) ==
  Cardinality({j \in 1..Len(placed) : TupleLess(keys[placed[j]], k)})

\* among the rows already placed (in key order), how many stay in front of a
\* row of key k that comes after them in the input: those whose key is not
\* greater
InsertAfter(keys, placed, k) ==
  Cardinality({j \in 1..Len(placed) : ~TupleLess(k, keys[placed[j]])})

RECURSIVE SortOrder(_, _)
\* the input positions 1..n in the order the sort leaves them
SortOrder(keys, n) ==
  IF n = 0 THEN <<>>
  ELSE LET placed == SortOrder(keys, n - 1)
           p      == InsertAfter(keys, placed, keys[n])
       IN  SubSeq(placed, 1, p) \o <<n>> \o SubSeq(placed, p + 1, n - 1)

\* xs.sort(key=...), keys[i] being the key of xs[i]
list_sort(xs, keys) ==
  LET o == SortOrder(keys, Len(xs))
  IN  [i \in 1..Len(xs) |-> xs[o[i]]]

Range(f) == {f[i] : i \in DOMAIN f}

RECURSIVE sorted(_)
\* sorted(S) of a set of str
sorted(S) ==
  IF S = {} THEN <<>>
  ELSE LET m == CHOOSE x \in S : \A y \in S : ~StrLess(y, x)
       IN  <<m>> \o sorted(S \ {m})

(***************************************************************************)
(* write_full_csv, the computation.                                        *)
(***************************************************************************)
\* FullRows with the presence filter of the per-fingerprint files applied
FullRows_presentOnly(p) ==
  LET Kept(x) == IsDict(x) /\ \E k \in 1..Len(FINGERPRINT_COLS) :
                                 is_present(Get(x, FINGERPRINT_COLS[k]))
      rows == SelectSeq(p.items, Kept)
  IN  list_sort(rows, [i \in 1..Len(rows) |-> record_sort_key(rows[i])])

\* rows = [x for x in payload if isinstance(x, dict)]; rows.sort(key=record_sort_key)
FullRows(p) ==
  LET rows == SelectSeq(p.items, IsDict)
  IN  list_sort(rows, [i \in 1..Len(rows) |-> record_sort_key(rows[i])])

\* ColumnOrder without the test "if k in keys" on the base columns
ColumnOrder_allBase(rows) ==
  LET keys == UNION {DOMAIN rows[i].d : i \in 1..Len(rows)}
  IN  BASE_COLS \o sorted({k \in keys : k \notin Range(BASE_COLS)})

\* base cols first (if present), then remaining keys sorted
ColumnOrder(rows) ==
  LET keys    == UNION {DOMAIN rows[i].d : i \in 1..Len(rows)}
      InKeys(k) == k \in keys
      ordered == SelectSeq(BASE_COLS, InKeys)
  IN  ordered \o sorted({k \in keys : k \notin Range(ordered)})

\* what writeheader and the writerow calls write, in order
FullCsvLines(p) ==
  LET rows    == FullRows(p)
      ordered == ColumnOrder(rows)
  IN  <<ordered>> \o
      [i \in 1..Len(rows) |->
         [j \in 1..Len(ordered) |-> to_csv_cell(Get(rows[i], ordered[j]))]]

(***************************************************************************)
(* write_fingerprint_csvs, the computation.                                *)
(***************************************************************************)
\* the path of a file of csv_dir, relative to it
FpPath(fp_col) == fp_col \o Lit.dot_csv

\* Fieldnames without the fingerprint column
Fieldnames_baseOnly(fp_col) == BASE_COLS

\* fieldnames = BASE_COLS + [fp_col]
Fieldnames(fp_col) == BASE_COLS \o <<fp_col>>

\* row = dict(base); row[fp_col] = to_csv_cell(v)
FpRow(item, fp_col) ==
  [c \in Range(BASE_COLS) \cup {fp_col} |->
     IF c = fp_col THEN to_csv_cell(Get(item, fp_col)) ELSE to_csv_cell(Get(item, c))]

\* buckets[fp_col], in payload order
Bucket(p, fp_col) ==
  LET Kept(item) == IsDict(item) /\ is_present(Get(item, fp_col))
      items == SelectSeq(p.items, Kept)
  IN  [i \in 1..Len(items) |-> FpRow(items[i], fp_col)]

\* r.get(c) of a row of a bucket: its cells are the str of to_csv_cell
RowGet(r, c) == IF c \in DOMAIN r THEN PyStr(r[c]) ELSE PyNone

\* the key of the lambda of rows.sort
bucket_sort_key(r, fp_col) ==
  << norm(RowGet(r, fp_col)),
     norm(RowGet(r, K.application)),
     norm(RowGet(r, K.library)),
     norm(RowGet(r, K.os)),
     norm(RowGet(r, K.user_agent_string)) >>

\* the lines the writer of fp_col writes after the header
BucketLines(p, fp_col) ==
  LET rows == Bucket(p, fp_col)
      srt  == list_sort(rows, [i \in 1..Len(rows) |-> bucket_sort_key(rows[i], fp_col)])
      f    == Fieldnames(fp_col)
  IN  [i \in 1..Len(srt) |-> [j \in 1..Len(f) |-> srt[i][f[j]]]]

(***************************************************************************)
(* The payloads drawn.                                                     *)
(***************************************************************************)
\* the first record of the example of the documentation
RecChrome ==
  PyDict(K.application :> PyStr(T.Chrome) @@ K.ja4_fingerprint :> PyStr(T.t13d)
         @@ K.observation_count :> PyInt(5))
\* the second one
RecCurl ==
  PyDict(K.application :> PyStr(T.curl) @@ K.ja4h_fingerprint :> PyStr(T.r1)
         @@ K.verified :> PyBool(TRUE))
\* differs from RecChrome in case, surrounding space and notes only
RecChromeAlt ==
  PyDict(K.application :> PyStr(T.chrome_sp) @@ K.ja4_fingerprint :> PyStr(T.T13D)
         @@ K.notes :> PyStr(T.n))
\* numbers where text is usual
RecNine ==
  PyDict(K.application :> PyInt(9) @@ K.ja4_fingerprint :> PyStr(T.t13d))
RecTen ==
  PyDict(K.application :> PyInt(10) @@ K.ja4_fingerprint :> PyStr(T.t13d))
\* every fingerprint field missing or holding a value that is not present
RecAbsent ==
  PyDict(K.ja4_fingerprint :> PyStr(T.empty) @@ K.ja4s_fingerprint :> PyNone
         @@ K.ja4x_fingerprint :> PyStr(T.sp) @@ K.ja4t_fingerprint :> PyList(<<>>)
         @@ K.ja4ts_fingerprint :> PyDict(<<>>) @@ K.id :> PyInt(1))
\* fingerprint fields holding zero, false, a list, a mapping
RecOdd ==
  PyDict(K.ja4_fingerprint :> PyInt(0) @@ K.ja4s_fingerprint :> PyBool(FALSE)
         @@ K.ja4t_fingerprint :> PyList(<<PyInt(1), PyStr(T.s)>>)
         @@ K.ja4_fingerprint_string :> PyStr(T.s)
         @@ K.ja4tscan_fingerprint :> PyDict(K.id :> PyInt(1)))
RecEmpty == PyDict(<<>>)

Records ==
  {RecChrome, RecCurl, RecChromeAlt, RecNine, RecTen, RecAbsent, RecOdd, RecEmpty}

\* elements of the array that are no objects
NonDicts == {PyInt(7), PyNone, PyStr(T.s), PyList(<<PyInt(1)>>)}

Elements == Records \cup NonDicts

\* what r.json() may return: an array, or a value of another shape
Payloads ==
  {PyList(xs) : xs \in UNION {[1..n -> Elements] : n \in 0..MaxPayloadLen}}
  \cup {RecChrome, PyStr(T.s), PyInt(7), PyNone}

(***************************************************************************)
(* The file system under csv_dir, and the run.                             *)
(***************************************************************************)
VARIABLES
  payload,      \* the value fetch_json returned
  entry,        \* the function called: main, or write_fingerprint_csvs alone
  run,          \* the number of the run on this payload and directory
  pc,           \* where the run is
  dirExists,    \* whether csv_dir exists
  fs,           \* the files of csv_dir: path -> the rows written
  openHandles,  \* the file handles opened and not closed
  files,        \* the dict files of write_fingerprint_csvs: fp_col -> handle
  fpIdx,        \* the position of the loop over FINGERPRINT_COLS
  err,          \* the exception raised, if any
  stdout,       \* the lines printed
  prevFs        \* the files as the previous run left them

vars ==
  << payload, entry, run, pc, dirExists, fs, openHandles, files, fpIdx, err,
     stdout, prevFs >>

NoError == [type |-> "none", got |-> ""]
\* raise TypeError(... f"Got: {type(payload).__name__}")
TypeError(p) == [type |-> "TypeError", got |-> TypeName(p)]
OSError == [type |-> "OSError", got |-> ""]

\* files left by an earlier export of other data
StaleFs ==
  Lit.all_records_csv :> << <<T.stale>>, <<T.s>> >>
  @@ FpPath(K.ja4_fingerprint) :> << <<T.stale>>, <<T.s>>, <<T.n>> >>
  @@ FpPath(K.ja4h_fingerprint) :> << <<T.stale>> >>

Entries == {"main", "write_fingerprint_csvs"}

Init ==
  /\ payload \in Payloads
  /\ entry \in Entries
  /\ run = 1
  /\ pc = IF entry = "main" THEN "write_full_csv" ELSE "write_fingerprint_csvs"
  /\ \/ dirExists = FALSE /\ fs = <<>>
     \/ dirExists = TRUE /\ fs = StaleFs
  /\ openHandles = {}
  /\ files = <<>>
  /\ fpIdx = 1
  /\ err = NoError
  /\ stdout = <<>>
  /\ prevFs = <<>>

\* path.open("a"): the file created, or kept as it is
Truncated_append(f, path) ==
  [q \in DOMAIN f \cup {path} |-> IF q \in DOMAIN f THEN f[q] ELSE <<>>]

\* path.open("w"): the file created or truncated
Truncated(f, path) == [q \in DOMAIN f \cup {path} |-> IF q = path THEN <<>> ELSE f[q]]

\* rows appended to an open file
Appended(f, path, lines) == [f EXCEPT ![path] = @ \o lines]

\* a cleanup that closes fh, the handle opened last, instead of every handle
HandlesOf_lastOnly(fl) ==
  {fl[FINGERPRINT_COLS[k]] :
     k \in {i \in 1..Len(FINGERPRINT_COLS) :
              /\ FINGERPRINT_COLS[i] \in DOMAIN fl
              /\ \A j \in (i + 1)..Len(FINGERPRINT_COLS) : FINGERPRINT_COLS[j] \notin DOMAIN fl}}

\* the handles the finally block closes
HandlesOf(fl) == {fl[c] : c \in DOMAIN fl}

(***************************************************************************)
(* write_full_csv.                                                         *)
(***************************************************************************)
\* the type check, the sort, the column order and csv_dir.mkdir
WriteFullCsvBegin ==
  /\ pc = "write_full_csv"
  /\ IF ~IsList(payload)
     THEN /\ err' = TypeError(payload)
          /\ pc' = "failed"
          /\ UNCHANGED dirExists
     ELSE \E ok \in BOOLEAN :
            IF ok
            THEN /\ dirExists' = TRUE
                 /\ pc' = "full_open"
                 /\ UNCHANGED err
            ELSE /\ err' = OSError
                 /\ pc' = "failed"
                 /\ UNCHANGED dirExists
  /\ UNCHANGED <<payload, entry, run, fs, openHandles, files, fpIdx, stdout, prevFs>>

\* out_path.open("w")
WriteFullCsvOpen ==
  /\ pc = "full_open"
  /\ \E ok \in BOOLEAN :
       IF ok
       THEN /\ fs' = Truncated(fs, Lit.all_records_csv)
            /\ openHandles' = openHandles \cup {Lit.all_records_csv}
            /\ pc' = "full_write"
            /\ UNCHANGED err
       ELSE /\ err' = OSError
            /\ pc' = "failed"
            /\ UNCHANGED <<fs, openHandles>>
  /\ UNCHANGED <<payload, entry, run, dirExists, files, fpIdx, stdout, prevFs>>

\* the body of the with statement: writeheader, the writerow calls, and the
\* close of the handle on leaving the block, by return or by exception
WriteFullCsvWrite ==
  /\ pc = "full_write"
  /\ LET lines == FullCsvLines(payload)
     IN  \E n \in 0..Len(lines) :
           /\ fs' = Appended(fs, Lit.all_records_csv, SubSeq(lines, 1, n))
           /\ IF n = Len(lines)
              THEN pc' = "write_fingerprint_csvs" /\ UNCHANGED err
              ELSE pc' = "failed" /\ err' = OSError
  /\ openHandles' = openHandles \ {Lit.all_records_csv}
  /\ UNCHANGED <<payload, entry, run, dirExists, files, fpIdx, stdout, prevFs>>

(***************************************************************************)
(* write_fingerprint_csvs.                                                 *)
(***************************************************************************)
\* the type check and csv_dir.mkdir, before the try block
WriteFingerprintCsvsBegin ==
  /\ pc = "write_fingerprint_csvs"
  /\ IF ~IsList(payload)
     THEN /\ err' = TypeError(payload)
          /\ pc' = "failed"
          /\ UNCHANGED dirExists
     ELSE \E ok \in BOOLEAN :
            IF ok
            THEN /\ dirExists' = TRUE
                 /\ pc' = "fp_open"
                 /\ UNCHANGED err
            ELSE /\ err' = OSError
                 /\ pc' = "failed"
                 /\ UNCHANGED dirExists
  /\ files' = <<>>
  /\ fpIdx' = 1
  /\ UNCHANGED <<payload, entry, run, fs, openHandles, stdout, prevFs>>

\* one turn of the first loop: open the file, record the handle, write the
\* header; each of the two may raise
WriteFingerprintCsvsOpen ==
  /\ pc = "fp_open"
  /\ LET fp_col == FINGERPRINT_COLS[fpIdx]
         path   == FpPath(fp_col)
     IN  \/ \* path.open raises
            /\ err' = OSError
            /\ pc' = "fp_finally"
            /\ UNCHANGED <<fs, openHandles, files, fpIdx>>
         \/ \* w.writeheader() raises
            /\ fs' = Truncated(fs, path)
            /\ openHandles' = openHandles \cup {path}
            /\ files' = (fp_col :> path) @@ files
            /\ err' = OSError
            /\ pc' = "fp_finally"
            /\ UNCHANGED fpIdx
         \/ /\ fs' = Appended(Truncated(fs, path), path, <<Fieldnames(fp_col)>>)
            /\ openHandles' = openHandles \cup {path}
            /\ files' = (fp_col :> path) @@ files
            /\ UNCHANGED err
            /\ IF fpIdx = Len(FINGERPRINT_COLS)
               THEN pc' = "fp_write" /\ fpIdx' = 1
               ELSE pc' = "fp_open" /\ fpIdx' = fpIdx + 1
  /\ UNCHANGED <<payload, entry, run, dirExists, stdout, prevFs>>

\* the buckets are collected, then one turn of the last loop: sort the
\* bucket and write its rows; a writerow may raise
WriteFingerprintCsvsWrite ==
  /\ pc = "fp_write"
  /\ LET fp_col == FINGERPRINT_COLS[fpIdx]
         lines  == BucketLines(payload, fp_col)
     IN  \E n \in 0..Len(lines) :
           /\ fs' = Appended(fs, files[fp_col], SubSeq(lines, 1, n))
           /\ IF n < Len(lines)
              THEN /\ err' = OSError
                   /\ pc' = "fp_finally"
                   /\ UNCHANGED fpIdx
              ELSE /\ UNCHANGED err
                   /\ IF fpIdx = Len(FINGERPRINT_COLS)
                      THEN pc' = "fp_finally" /\ UNCHANGED fpIdx
                      ELSE pc' = "fp_write" /\ fpIdx' = fpIdx + 1
  /\ UNCHANGED <<payload, entry, run, dirExists, openHandles, files, stdout, prevFs>>

\* the finally block: every handle of files is closed (an exception of
\* close is swallowed, the descriptor is released all the same); then the
\* function returns, or the pending exception goes on
WriteFingerprintCsvsFinally ==
  /\ pc = "fp_finally"
  /\ openHandles' = openHandles \ HandlesOf(files)
  /\ pc' = IF err # NoError THEN "failed"
           ELSE IF entry = "main" THEN "print" ELSE "done"
  /\ UNCHANGED <<payload, entry, run, dirExists, fs, files, fpIdx, err, stdout, prevFs>>

(***************************************************************************)
(* main.                                                                   *)
(***************************************************************************)
\* the two print calls that end main
MainPrint ==
  /\ pc = "print"
  /\ stdout' = stdout \o <<"Wrote full CSV", "Wrote JA4 CSVs">>
  /\ pc' = "done"
  /\ UNCHANGED <<payload, entry, run, dirExists, fs, openHandles, files, fpIdx, err, prevFs>>

\* the program is run again, on the same payload and the same directory
RunAgain ==
  /\ pc = "done"
  /\ entry = "main"
  /\ run < MaxRuns
  /\ run' = run + 1
  /\ prevFs' = fs
  /\ pc' = "write_full_csv"
  /\ stdout' = <<>>
  /\ UNCHANGED <<payload, entry, dirExists, fs, openHandles, files, fpIdx, err>>

Next ==
  \/ WriteFullCsvBegin
  \/ WriteFullCsvOpen
  \/ WriteFullCsvWrite
  \/ WriteFingerprintCsvsBegin
  \/ WriteFingerprintCsvsOpen
  \/ WriteFingerprintCsvsWrite
  \/ WriteFingerprintCsvsFinally
  \/ MainPrint
  \/ RunAgain

Spec == Init /\ [][Next]_vars

(***************************************************************************)
(* Vocabulary of the properties.                                           *)
(***************************************************************************)
\* write_full_csv has returned normally in this run
FullWritten ==
  /\ entry = "main"
  /\ pc \in {"write_fingerprint_csvs", "fp_open", "fp_write", "fp_finally", "print", "done"}

\* write_fingerprint_csvs has returned normally
FpCompleted == pc \in {"print", "done"}

\* the call has returned or raised
Terminal == pc \in {"print", "done", "failed"}

\* the rows of a file after its header
DataRows(path) == Tail(fs[path])

\* the presence rule in the words of the documentation: null, a missing key,
\* an empty or whitespace-only string and an empty collection are absent
Absent(v) ==
  \/ v.t = "NoneType"
  \/ v.t = "str" /\ \A i \in 1..Len(v.s) : v.s[i] \in Whitespace
  \/ v.t = "list" /\ v.items = <<>>
  \/ v.t = "dict" /\ DOMAIN v.d = {}

\* the dict-typed elements of the payload, in payload order
DictElems == SelectSeq(payload.items, IsDict)

\* the dict-typed elements whose field col is present, in payload order
PresentElems(col) ==
  LET Has(x) == IsDict(x) /\ ~Absent(Get(x, col))
  IN  SelectSeq(payload.items, Has)

\* the cells of record r under the columns cols
CellsOf(r, cols) == [j \in 1..Len(cols) |-> to_csv_cell(Get(r, cols[j]))]

\* how many times x occurs in the sequence
Count(seq, x) == Cardinality({i \in 1..Len(seq) : seq[i] = x})

(***************************************************************************)
(* C1: after write_fingerprint_csvs completes normally, a dict-typed       *)
(* element contributes a data row to <col>.csv exactly when its field col  *)
(* is present: for each of the 8 files, the data rows are, with their      *)
(* multiplicities, the rows of the elements whose field is not absent;     *)
(* 0 and false are present.                                                *)
(***************************************************************************)
C1_PresenceFilter ==
  FpCompleted =>
    \A k \in 1..Len(FINGERPRINT_COLS) :
      LET col  == FINGERPRINT_COLS[k]
          rows == DataRows(FpPath(col))
          recs == PresentElems(col)
          want == [i \in 1..Len(recs) |-> CellsOf(recs[i], BASE_COLS \o <<col>>)]
      IN  /\ Len(rows) = Len(want)
          /\ \A x \in Range(rows) \cup Range(want) : Count(rows, x) = Count(want, x)

C1_Witness ==
  /\ FpCompleted
  /\ payload = PyList(<<RecOdd, RecAbsent>>)
  /\ Len(DataRows(FpPath(K.ja4_fingerprint))) = 1
  /\ Len(DataRows(FpPath(K.ja4x_fingerprint))) = 0

BaseIndex(c) == CHOOSE i \in 1..Len(BASE_COLS) : BASE_COLS[i] = c

ColumnBefore(a, b) ==
  IF a \in Range(BASE_COLS)
  THEN b \notin Range(BASE_COLS) \/ BaseIndex(a) < BaseIndex(b)
  ELSE b \notin Range(BASE_COLS) /\ StrLess(a, b)

(***************************************************************************)
(* C2: the header of all_records.csv holds exactly the union of the keys   *)
(* of the dict-typed elements, each once: the members of BASE_COLS that    *)
(* occur, in the order of BASE_COLS, then the other keys in ascending      *)
(* order.                                                                  *)
(***************************************************************************)
C2_FullHeader ==
  FullWritten =>
    LET h    == fs[Lit.all_records_csv][1]
        keys == UNION {DOMAIN payload.items[i].d :
                         i \in {j \in 1..Len(payload.items) : IsDict(payload.items[j])}}
    IN  /\ Range(h) = keys
        /\ Len(h) = Cardinality(keys)
        /\ \A i, j \in 1..Len(h) : i < j => ColumnBefore(h[i], h[j])

C2_Witness ==
  /\ FullWritten
  /\ payload = PyList(<<RecOdd, RecCurl>>)
  /\ Len(fs[Lit.all_records_csv][1]) = 8

C4_NoLeakedHandle == Terminal => openHandles = {}

C4_Witness ==
  /\ pc = "failed"
  /\ err = OSError
  /\ Cardinality(DOMAIN files) = 3
  /\ fs[FpPath(K.ja4s_fingerprint)] = <<>>

\* the fields of the sort key, as the documentation lists them
GlobalKeyFields ==
  << K.application, K.library, K.os, K.user_agent_string, K.ja4_fingerprint,
     K.ja4s_fingerprint, K.ja4h_fingerprint, K.ja4x_fingerprint,
     K.ja4t_fingerprint, K.ja4ts_fingerprint, K.ja4tscan_fingerprint >>

GlobalKey(r) == [i \in 1..Len(GlobalKeyFields) |-> norm(Get(r, GlobalKeyFields[i]))]

(***************************************************************************)
(* C5: the data rows of all_records.csv are the dict-typed elements        *)
(* arranged by a stable sort on the tuple of the 11 normalized fields      *)
(* (a missing field counting as the empty string): the key tuples of       *)
(* consecutive rows never decrease, and elements of identical key tuples   *)
(* keep the relative order they have in the payload.                       *)
(***************************************************************************)
C5_FullRowsStableSorted ==
  FullWritten =>
    LET h    == fs[Lit.all_records_csv][1]
        rows == DataRows(Lit.all_records_csv)
        recs == DictElems
        n    == Len(recs)
    IN  /\ Len(rows) = n
        /\ \E o \in Permutations(1..n) :
             /\ \A i \in 1..n : rows[i] = CellsOf(recs[o[i]], h)
             /\ \A i, j \in 1..n :
                  i < j => /\ ~TupleLess(GlobalKey(recs[o[j]]), GlobalKey(recs[o[i]]))
                           /\ (GlobalKey(recs[o[i]]) = GlobalKey(recs[o[j]]) => o[i] < o[j])

C5_Witness ==
  /\ FullWritten
  /\ payload = PyList(<<RecChromeAlt, RecChrome>>)
  /\ GlobalKey(RecChromeAlt) = GlobalKey(RecChrome)
  /\ DataRows(Lit.all_records_csv)[1] # DataRows(Lit.all_records_csv)[2]
  /\ DataRows(Lit.all_records_csv)[1] =
       CellsOf(RecChromeAlt, fs[Lit.all_records_csv][1])

(***************************************************************************)
(* C6: a second run of the export on the same payload and directory        *)
(* leaves all_records.csv and the 8 per-fingerprint files with the         *)
(* contents the first run left: every file is truncated and rewritten.     *)
(***************************************************************************)
C6_SecondRunSameFiles == (pc = "done" /\ run > 1) => fs = prevFs

C6_Witness ==
  /\ pc = "done"
  /\ run = 2
  /\ payload = PyList(<<RecCurl, RecChrome>>)
  /\ Len(fs[Lit.all_records_csv]) = 3
  /\ Len(fs[FpPath(K.ja4_fingerprint)]) = 2

\* the name of the Python type of a JSON value that is no array
ReceivedTypeName ==
  CASE payload = RecChrome -> "dict"
    [] payload = PyStr(T.s) -> "str"
    [] payload = PyInt(7) -> "int"
    [] payload = PyNone -> "NoneType"

C7_Step ==
  /\ (pc \in {"write_full_csv", "write_fingerprint_csvs"} /\ payload.t # "list")
       => /\ pc' = "failed"
          /\ err' = [type |-> "TypeError", got |-> ReceivedTypeName]
          /\ dirExists' = dirExists
          /\ fs' = fs
          /\ openHandles' = {}
          /\ stdout' = <<>>
  /\ pc = "failed" => (pc' = "failed" /\ fs' = fs /\ stdout' = stdout)

(***************************************************************************)
(* C7: on a payload that is no list, write_full_csv and                    *)
(* write_fingerprint_csvs each raise a TypeError naming the type received, *)
(* before the directory is created or a file opened; nothing runs after    *)
(* the failure, so in main write_fingerprint_csvs is not started and       *)
(* nothing is printed.                                                     *)
(***************************************************************************)
C7_NonListRejected == [][C7_Step]_vars

C7_Witness ==
  /\ pc = "failed"
  /\ entry = "main"
  /\ payload = RecChrome
  /\ err = [type |-> "TypeError", got |-> "dict"]
  /\ fs = StaleFs
  /\ stdout = <<>>

\* no fingerprint field of r is present
AllFingerprintsAbsent(r) ==
  \A k \in 1..Len(FINGERPRINT_COLS) : Absent(Get(r, FINGERPRINT_COLS[k]))

\* the rows and the errors of a mixed payload, the cells set aside
C8_RowCounts ==
  /\ (IsList(payload) => err.type # "TypeError")
  /\ FullWritten => Len(DataRows(Lit.all_records_csv)) = Len(DictElems)
  /\ (FullWritten /\ FpCompleted) =>
       \A k \in 1..Len(FINGERPRINT_COLS) :
         Len(DataRows(FpPath(FINGERPRINT_COLS[k]))) = Len(PresentElems(FINGERPRINT_COLS[k]))

\* the fingerprint cells, in all_records.csv, of the elements whose
\* fingerprint fields are all absent: Cell(v) is what the cell of value v is
\* said to hold
C8_Cells(Cell(_)) ==
  FullWritten =>
    LET h    == fs[Lit.all_records_csv][1]
        rows == DataRows(Lit.all_records_csv)
    IN  \A i \in 1..Len(DictElems) :
          AllFingerprintsAbsent(DictElems[i]) =>
            \E j \in 1..Len(rows) :
              /\ rows[j] = CellsOf(DictElems[i], h)
              /\ \A c \in 1..Len(h) :
                   h[c] \in Range(FINGERPRINT_COLS) => rows[j][c] = Cell(Get(DictElems[i], h[c]))

EmptyCell(v) == <<>>

(***************************************************************************)
(* C8, as stated: in a list that mixes dict-typed and other elements, the  *)
(* other elements raise nothing and produce no row, all_records.csv has    *)
(* one data row per dict-typed element, and a dict-typed element whose     *)
(* fingerprint fields are all absent has a row in all_records.csv whose    *)
(* fingerprint cells are empty, and no row in a per-fingerprint file.      *)
(***************************************************************************)
C8_Original == C8_RowCounts /\ C8_Cells(EmptyCell)

AbsentCell(v) ==
  CASE v.t = "NoneType" -> <<>>
    [] v.t = "str" -> v.s
    [] v.t = "list" -> <<91, 93>>
    [] v.t = "dict" -> <<123, 125>>

(***************************************************************************)
(* C8, amended: the same, except that a fingerprint cell of such an        *)
(* element is empty only for a null, missing or empty-string field; a      *)
(* whitespace-only string is written as it is, an empty list as [] and an  *)
(* empty mapping as {}.                                                    *)
(***************************************************************************)
C8_MixedPayload == C8_RowCounts /\ C8_Cells(AbsentCell)

C8_Witness ==
  /\ FullWritten
  /\ FpCompleted
  /\ payload = PyList(<<PyInt(7), RecAbsent>>)
  /\ Len(DataRows(Lit.all_records_csv)) = 1
  /\ \A k \in 1..Len(FINGERPRINT_COLS) : DataRows(FpPath(FINGERPRINT_COLS[k])) = <<>>

(***************************************************************************)
(* C9: after a successful run, write_fingerprint_csvs has neither created  *)
(* nor written a file ja4_fingerprint_string.csv (no such file exists      *)
(* before the first run).                                                  *)
(***************************************************************************)
C9_NoFingerprintStringFile ==
  FpCompleted => (K.ja4_fingerprint_string \o Lit.dot_csv) \notin DOMAIN fs

BucketKey(r, col) ==
  << norm(Get(r, col)), norm(Get(r, K.application)), norm(Get(r, K.library)),
     norm(Get(r, K.os)), norm(Get(r, K.user_agent_string)) >>

(***************************************************************************)
(* C10: in each <col>.csv the data rows are in non-decreasing order of     *)
(* (norm(fingerprint), norm(application), norm(library), norm(os),         *)
(* norm(user_agent_string)), norm applied to the field values of the       *)
(* record: of two records of equal fingerprint whose applications are the  *)
(* numbers 9 and 10, the one of 9 is written first.                        *)
(***************************************************************************)
C10_BucketOrder ==
  FpCompleted =>
    \A k \in 1..Len(FINGERPRINT_COLS) :
      LET col  == FINGERPRINT_COLS[k]
          rows == DataRows(FpPath(col))
          recs == PresentElems(col)
          n    == Len(recs)
      IN  /\ Len(rows) = n
          /\ \E o \in Permutations(1..n) :
               /\ \A i \in 1..n : rows[i] = CellsOf(recs[o[i]], BASE_COLS \o <<col>>)
               /\ \A i, j \in 1..n :
                    i < j => ~TupleLess(BucketKey(recs[o[j]], col), BucketKey(recs[o[i]], col))

====
